---- MODULE Spec2Model ----
(***************************************************************************)
(* Model of the recommendation endpoint (api/recommend.js, the version     *)
(* kept as src/unnamed/part_002): the CSV catalog reader with its 60 s     *)
(* cache, the use-case profile table, the budget-tier planner, the scorer  *)
(* and the three-tier selector with its de-duplication.                    *)
(*                                                                         *)
(* Strings of the source written in Japanese are spelled in ASCII here:    *)
(* the tier labels are "enough", "comfort", "headroom", and the words of a *)
(* product text are tokens such as "memory", "camera", "tenkey".           *)
(***************************************************************************)
EXTENDS Integers, Sequences, FiniteSets, TLC

VARIABLES
    file,     \* data/20251224113121.csv as the file system holds it
    cache,    \* _cache = { at, rows }
    now,      \* Date.now()
    request,  \* the request the handler was last called with
    resp,     \* the response written by the last call of the handler
    rows,     \* what readProductsFromMakeshopCsv() returned in the last call, if it returned
    picks,    \* the handler's locals enough, comfort, headroom (pickOne)
    fsRead,   \* whether the last call of the handler called fs.readFileSync
    plan,     \* one call of computeTargetBudget: its arguments and result
    parse,    \* one call of parseSpec: its argument and result
    imgCache, \* _imgCache: url -> { at, imageUrl }
    imgCalls  \* the calls of fetchOgImage so far, in the order they started

vars == <<file, cache, now, request, resp, rows, picks, fsRead, plan, parse,
          imgCache, imgCalls>>

Null == "null"

\* a value that may be null: << >> is null, <<x>> is x
None == << >>
Some(x) == <<x>>

Min(a, b) == IF a <= b THEN a ELSE b
Max(a, b) == IF a >= b THEN a ELSE b

\* JavaScript's x || y on numbers: 0 is falsy
OrElse(x, y) == IF x = 0 THEN y ELSE x

\* JavaScript's x || y on strings: "" is falsy
StrOr(x, y) == IF x = "" THEN y ELSE x

(***************************************************************************)
(* Use-case profile table                                                  *)
(***************************************************************************)
base ==
    [ office |->
        [ label |-> "office",
          target |-> [laptop |-> 22000, desktop |-> 20000, any |-> 20000],
          minSpec |-> [mem |-> 8, ssd |-> 256],
          require |-> [camera |-> FALSE, gpu |-> FALSE],
          avoid |-> [hddOnly |-> TRUE, memUnder |-> 8] ],
      zoom |->
        [ label |-> "zoom",
          target |-> [laptop |-> 25000, desktop |-> 22000, any |-> 23000],
          minSpec |-> [mem |-> 8, ssd |-> 256],
          require |-> [camera |-> TRUE, gpu |-> FALSE],
          avoid |-> [hddOnly |-> TRUE, memUnder |-> 8] ],
      creator |->
        [ label |-> "creator",
          target |-> [laptop |-> 45000, desktop |-> 40000, any |-> 42000],
          minSpec |-> [mem |-> 16, ssd |-> 512],
          require |-> [camera |-> FALSE, gpu |-> FALSE],
          avoid |-> [hddOnly |-> TRUE, memUnder |-> 8] ],
      game |->
        [ label |-> "game",
          target |-> [laptop |-> 70000, desktop |-> 65000, any |-> 65000],
          minSpec |-> [mem |-> 16, ssd |-> 512],
          require |-> [camera |-> FALSE, gpu |-> TRUE],
          avoid |-> [hddOnly |-> TRUE, memUnder |-> 8] ] ]

\* base is an object literal: base[k] also finds what Object.prototype
\* defines, and each of these values is truthy and has no target property
ObjectPrototypeKeys ==
    { "constructor", "toString", "valueOf", "hasOwnProperty", "__proto__" }

Inherited(k) == [inherited |-> k]

\* return base[useCase] || base.office
getProfile(useCase) ==
    IF useCase \in DOMAIN base THEN base[useCase]
    ELSE IF useCase \in ObjectPrototypeKeys THEN Inherited(useCase)
    ELSE base.office

(***************************************************************************)
(* Budget-tier planner                                                     *)
(***************************************************************************)
clampNoFloor(n, a, b) == Min(b, n)

\* Math.max(a, Math.min(b, n))
clamp(n, a, b) == Max(a, Min(b, n))

\* Math.round(target * 1.35) and Math.round(target * 1.8) on an integer
\* target: Math.round rounds half up, \div rounds down
Round135(t) == (t * 135 + 50) \div 100
Round18(t) == (t * 18 + 5) \div 10

FloorMistyped(profile, budgetMax, devicePref) ==
    LET key == IF devicePref \in {"laptop", "desktop"} THEN devicePref ELSE "any"
        baseTarget == profile.target[key]
        target == Min(OrElse(budgetMax, baseTarget), baseTarget)
        enough == clamp(target, 100000, OrElse(budgetMax, target))
        comfort == clamp(Round135(target), enough, OrElse(budgetMax, Round135(target)))
        headroom == clamp(Round18(target), comfort, OrElse(budgetMax, Round18(target)))
    IN  [target |-> target, enough |-> enough, comfort |-> comfort, headroom |-> headroom]

TargetNotCapped(profile, budgetMax, devicePref) ==
    LET key == IF devicePref \in {"laptop", "desktop"} THEN devicePref ELSE "any"
        baseTarget == profile.target[key]
        target == OrElse(budgetMax, baseTarget)
        enough == clamp(target, 10000, OrElse(budgetMax, target))
        comfort == clamp(Round135(target), enough, OrElse(budgetMax, Round135(target)))
        headroom == clamp(Round18(target), comfort, OrElse(budgetMax, Round18(target)))
    IN  [target |-> target, enough |-> enough, comfort |-> comfort, headroom |-> headroom]

computeTargetBudget(profile, budgetMax, devicePref) ==
    LET key == IF devicePref \in {"laptop", "desktop"} THEN devicePref ELSE "any"
        baseTarget == profile.target[key]
        target == Min(OrElse(budgetMax, baseTarget), baseTarget)
        enough == clamp(target, 10000, OrElse(budgetMax, target))
        comfort == clamp(Round135(target), enough, OrElse(budgetMax, Round135(target)))
        headroom == clamp(Round18(target), comfort, OrElse(budgetMax, Round18(target)))
    IN  [target |-> target, enough |-> enough, comfort |-> comfort, headroom |-> headroom]

\* the baseline the planner resolves for a device preference
Baseline(profile, devicePref) ==
    IF devicePref \in {"laptop", "desktop"} THEN profile.target[devicePref]
    ELSE profile.target.any

(***************************************************************************)
(* Product texts.  A text is a string; Words(text) is the sequence of its  *)
(* words, which a single blank separates in the text.  A word is a token:  *)
(* a plain word (w), or a number n directly followed by a unit u ("8GB",   *)
(* "1TB", "14inch", with inches counted in tenths), or a CPU model (w the  *)
(* model string, n its number, u the maker).                               *)
(***************************************************************************)
W(w) == [w |-> w, n |-> 0, u |-> ""]
C(n, u) == [w |-> "", n |-> n, u |-> u]
Cpu(w, n, u) == [w |-> w, n |-> n, u |-> u]

NameA == "ThinkPad X270 memory 8GB SSD 256GB"
NameB == "ThinkPad T480 camera tenkey 14inch i5-8250U memory 16GB SSD 512GB"
NameC == "OptiPlex GeForce memory 16GB SSD 512GB"
NameD == "Latitude E5530 HDD 500GB 4GB memory i3-3120M"
NameE == "PC memory 8GB SSD 256GB"
OptNone == ""
OptRtx == "option RTX 1TB SSD"

Words(text) ==
    CASE text = NameA -> << W("ThinkPad"), W("X270"), W("memory"), C(8, "GB"),
                            W("SSD"), C(256, "GB") >>
      [] text = NameB -> << W("ThinkPad"), W("T480"), W("camera"), W("tenkey"),
                            C(140, "inch"), Cpu("i5-8250U", 8250, "intel"),
                            W("memory"), C(16, "GB"), W("SSD"), C(512, "GB") >>
      [] text = NameC -> << W("OptiPlex"), W("GeForce"), W("memory"), C(16, "GB"),
                            W("SSD"), C(512, "GB") >>
      [] text = NameD -> << W("Latitude"), W("E5530"), W("HDD"), C(500, "GB"),
                            C(4, "GB"), W("memory"), Cpu("i3-3120M", 3120, "intel") >>
      [] text = NameE -> << W("PC"), W("memory"), C(8, "GB"), W("SSD"), C(256, "GB") >>
      [] text = OptRtx -> << W("option"), W("RTX"), C(1, "TB"), W("SSD") >>
      [] OTHER -> << >>

\* the plain words that hold a digit
DigitWords == {"X270", "T480", "E5530"}

MemWords == {"memory", "RAM", "Memory"}
GpuWords == {"RTX", "GTX", "Radeon", "Arc", "GeForce"}
LaptopWords == {"note", "Laptop", "ThinkPad", "LuvBook", "Latitude", "EliteBook", "Let's note"}
DesktopWords == {"Desktop", "ProDesk", "OptiPlex", "SFF", "DM", "MT", "tower", "workstation"}
CameraWords == {"WEBcamera", "Webcamera", "camera"}

\* values of a numeric field that is not a number
NullNum == 0 - 1
NaN == 0 - 2

\* how many decimal digits the number of a token has
Digits(n) == IF n < 10 THEN 1 ELSE IF n < 100 THEN 2 ELSE IF n < 1000 THEN 3
             ELSE IF n < 10000 THEN 4 ELSE 5

HasWord(ws, set) == \E i \in 1..Len(ws) : ws[i].w \in set

\* the position of the first word from i on whose unit is u, 0 when there
\* is none
RECURSIVE FirstUnit(_, _, _)
FirstUnit(ws, i, u) ==
    IF i > Len(ws) THEN 0
    ELSE IF ws[i].u = u THEN i
    ELSE FirstUnit(ws, i + 1, u)

\* [^0-9]{0,10} followed by the number and its unit: from word j on, with
\* chars characters of the gap used up (the blank before word j included),
\* only digit-free plain words may come before the number.  The position of
\* the number, 0 when the expression does not match here
RECURSIVE AfterGap(_, _, _, _, _)
AfterGap(ws, j, chars, units, digits) ==
    IF j > Len(ws) \/ chars > 10 THEN 0
    ELSE IF ws[j].u \in units /\ Digits(ws[j].n) \in digits THEN j
    ELSE IF ws[j].u = "" /\ ws[j].w \notin DigitWords
         THEN AfterGap(ws, j + 1, chars + Len(ws[j].w) + 1, units, digits)
    ELSE 0

\* keyword, gap, number: the position of the number of the leftmost match
\* at or after word i, 0 when there is none
RECURSIVE KeyThenNum(_, _, _, _, _)
KeyThenNum(ws, i, keys, units, digits) ==
    IF i > Len(ws) THEN 0
    ELSE IF ws[i].w \in keys /\ AfterGap(ws, i + 1, 1, units, digits) # 0
         THEN AfterGap(ws, i + 1, 1, units, digits)
    ELSE KeyThenNum(ws, i + 1, keys, units, digits)

\* number, then the keyword with no letter between them: the position of
\* the number of the leftmost match at or after word i, 0 when there is none
RECURSIVE NumThenKey(_, _, _, _, _)
NumThenKey(ws, i, keys, units, digits) ==
    IF i >= Len(ws) THEN 0
    ELSE IF /\ ws[i].u \in units /\ Digits(ws[i].n) \in digits
            /\ ws[i + 1].w \in keys
         THEN i
    ELSE NumThenKey(ws, i + 1, keys, units, digits)

(***************************************************************************)
(* parseSpec, on the words of the text                                     *)
(***************************************************************************)
parseSpec(ws) ==
    LET \* (memory|RAM|Memory)[^0-9]{0,10}(\d{1,3})\s*GB
        mem1 == KeyThenNum(ws, 1, MemWords, {"GB"}, 1..3)
        \* (\d{1,3})\s*GB[^a-zA-Z...]{0,10}(memory|RAM|Memory)
        mem2 == NumThenKey(ws, 1, MemWords, {"GB"}, 1..3)
        \* Number(memMatch[2] || memMatch[1]): in the second alternative
        \* group 2 is the keyword, and Number(keyword) is NaN
        memGB == IF mem1 # 0 THEN ws[mem1].n
                 ELSE IF mem2 # 0 THEN NaN
                 ELSE NullNum
        \* SSD[^0-9]{0,10}(\d{2,4})\s*(GB|TB)
        ssd1 == KeyThenNum(ws, 1, {"SSD"}, {"GB", "TB"}, 2..4)
        \* (\d{2,4})\s*(GB|TB)[^a-zA-Z...]{0,10}SSD
        ssd2 == NumThenKey(ws, 1, {"SSD"}, {"GB", "TB"}, 2..4)
        ssdAt == IF ssd1 # 0 THEN ssd1 ELSE ssd2
        ssdGB == IF ssdAt = 0 THEN NullNum
                 ELSE IF ws[ssdAt].u = "TB" THEN ws[ssdAt].n * 1024 ELSE ws[ssdAt].n
        hasHDD == HasWord(ws, {"HDD"}) /\ ~HasWord(ws, {"SSD"})
        hasGPU == HasWord(ws, GpuWords)
        \* the Intel pattern is tried first, then the Ryzen one
        intel == FirstUnit(ws, 1, "intel")
        ryzen == FirstUnit(ws, 1, "ryzen")
        cpu == IF intel # 0 THEN ws[intel].w
               ELSE IF ryzen # 0 THEN ws[ryzen].w ELSE Null
        \* num.length === 4 ? Number(num[0]) : Number(num.slice(0, 2))
        cpuGen == IF intel = 0 THEN NullNum
                  ELSE IF Digits(ws[intel].n) = 4 THEN ws[intel].n \div 1000
                  ELSE ws[intel].n \div 1000
    IN  [memGB |-> memGB, ssdGB |-> ssdGB, hasGPU |-> hasGPU, hasHDD |-> hasHDD,
         cpu |-> cpu, cpuGen |-> cpuGen]

parseFeatures(ws) ==
    LET isLaptop == HasWord(ws, LaptopWords)
        isDesktop == HasWord(ws, DesktopWords)
        deviceType == IF isLaptop /\ ~isDesktop THEN "laptop"
                      ELSE IF isDesktop /\ ~isLaptop THEN "desktop" ELSE "any"
        inchAt == FirstUnit(ws, 1, "inch")
    IN  [deviceType |-> deviceType,
         hasCamera |-> HasWord(ws, CameraWords),
         hasTenkey |-> HasWord(ws, {"tenkey"}),
         inch |-> IF inchAt = 0 THEN NullNum ELSE ws[inchAt].n]

(***************************************************************************)
(* Scorer.  A score is an integer number of 1/10000 points.                *)
(***************************************************************************)
Pt == 10000

\* 10000 * ln(a / b) for b <= a < 2b, by ln x = 2 artanh((x - 1) / (x + 1))
\* cut after the z^7 term (z < 1/3, so the rest is below the unit)
LnScaled(a, b) ==
    LET z  == ((a - b) * Pt) \div (a + b)
        z2 == (z * z) \div Pt
        z3 == (z2 * z) \div Pt
        z5 == (z3 * z2) \div Pt
        z7 == (z5 * z2) \div Pt
    IN  2 * (z + z3 \div 3 + z5 \div 5 + z7 \div 7)

\* Math.max(0, 12 - Math.abs(Math.log(price / centerPrice)) * 18); when one
\* price is at least twice the other the distance is at least ln 2 > 12/18
PriceBump(price, centerPrice) ==
    LET a == Max(price, centerPrice)
        b == Min(price, centerPrice)
    IN  IF a >= 2 * b THEN 0 ELSE Max(0, 12 * Pt - 18 * LnScaled(a, b))

\* spec.memGB ?? 0 : null becomes 0, NaN stays; a comparison with NaN is false
Nullish0(x) == IF x = NullNum THEN 0 ELSE x
Lt(x, y) == x # NaN /\ x < y
Ge(x, y) == x # NaN /\ x >= y

scoreExtraInEveryTier(p, spec, feat, centerPrice, profile, req) ==
    LET mem == Nullish0(spec.memGB)
        ssd == Nullish0(spec.ssdGB)
        price == IF centerPrice > 0
                 THEN PriceBump(p.price, centerPrice)
                      - (IF p.price * 100 < 55 * centerPrice THEN 2 * Pt ELSE 0)
                 ELSE 0
        avoid == (IF profile.avoid.hddOnly /\ spec.hasHDD THEN 0 - 8 * Pt ELSE 0)
                 + (IF profile.avoid.memUnder # 0 /\ Lt(mem, profile.avoid.memUnder)
                    THEN 0 - 8 * Pt ELSE 0)
        minSpec == (IF Ge(mem, profile.minSpec.mem) THEN 4 * Pt ELSE 0)
                   + (IF Ge(ssd, profile.minSpec.ssd) THEN 3 * Pt ELSE 0)
        extra == (IF Ge(mem, 16) THEN 3 * Pt ELSE 0)
                 + (IF Ge(ssd, 512) THEN 2 * Pt ELSE 0)
        gpu == IF profile.require.gpu
               THEN (IF spec.hasGPU THEN 10 * Pt ELSE 0 - 20 * Pt) ELSE 0
        camera == IF profile.require.camera
                  THEN (IF feat.hasCamera THEN 6 * Pt ELSE 0 - 10 * Pt) ELSE 0
        device == IF req.device # "" /\ req.device # "any"
                  THEN (IF feat.deviceType = req.device THEN 4 * Pt
                        ELSE IF feat.deviceType # "any" THEN 0 - 3 * Pt ELSE 0)
                  ELSE 0
        wishes == (IF req.needsTenkey THEN (IF feat.hasTenkey THEN 2 * Pt ELSE 0 - 2 * Pt) ELSE 0)
                  + (IF req.needsCamera THEN (IF feat.hasCamera THEN 2 * Pt ELSE 0 - 2 * Pt) ELSE 0)
        screen == IF feat.inch = NullNum THEN 0
                  ELSE IF req.screen = "13-14"
                       THEN (IF feat.inch <= 145 THEN 2 * Pt ELSE 0 - Pt)
                  ELSE IF req.screen = "15.6"
                       THEN (IF feat.inch >= 150 THEN 2 * Pt ELSE 0 - Pt)
                  ELSE 0
        gen == IF spec.cpuGen = NullNum THEN 0
               ELSE IF spec.cpuGen >= 8 THEN 2 * Pt
               ELSE IF spec.cpuGen >= 6 THEN Pt ELSE 0 - Pt
    IN  price + avoid + minSpec + extra + gpu + camera + device + wishes + screen + gen

scoreExtraAboveHeadroom(p, spec, feat, centerPrice, profile, req) ==
    LET mem == Nullish0(spec.memGB)
        ssd == Nullish0(spec.ssdGB)
        price == IF centerPrice > 0
                 THEN PriceBump(p.price, centerPrice)
                      - (IF p.price * 100 < 55 * centerPrice THEN 2 * Pt ELSE 0)
                 ELSE 0
        avoid == (IF profile.avoid.hddOnly /\ spec.hasHDD THEN 0 - 8 * Pt ELSE 0)
                 + (IF profile.avoid.memUnder # 0 /\ Lt(mem, profile.avoid.memUnder)
                    THEN 0 - 8 * Pt ELSE 0)
        minSpec == (IF Ge(mem, profile.minSpec.mem) THEN 4 * Pt ELSE 0)
                   + (IF Ge(ssd, profile.minSpec.ssd) THEN 3 * Pt ELSE 0)
        extra == IF centerPrice > req.headroomCenter
                 THEN (IF Ge(mem, 16) THEN 3 * Pt ELSE 0)
                      + (IF Ge(ssd, 512) THEN 2 * Pt ELSE 0)
                 ELSE 0
        gpu == IF profile.require.gpu
               THEN (IF spec.hasGPU THEN 10 * Pt ELSE 0 - 20 * Pt) ELSE 0
        camera == IF profile.require.camera
                  THEN (IF feat.hasCamera THEN 6 * Pt ELSE 0 - 10 * Pt) ELSE 0
        device == IF req.device # "" /\ req.device # "any"
                  THEN (IF feat.deviceType = req.device THEN 4 * Pt
                        ELSE IF feat.deviceType # "any" THEN 0 - 3 * Pt ELSE 0)
                  ELSE 0
        wishes == (IF req.needsTenkey THEN (IF feat.hasTenkey THEN 2 * Pt ELSE 0 - 2 * Pt) ELSE 0)
                  + (IF req.needsCamera THEN (IF feat.hasCamera THEN 2 * Pt ELSE 0 - 2 * Pt) ELSE 0)
        screen == IF feat.inch = NullNum THEN 0
                  ELSE IF req.screen = "13-14"
                       THEN (IF feat.inch <= 145 THEN 2 * Pt ELSE 0 - Pt)
                  ELSE IF req.screen = "15.6"
                       THEN (IF feat.inch >= 150 THEN 2 * Pt ELSE 0 - Pt)
                  ELSE 0
        gen == IF spec.cpuGen = NullNum THEN 0
               ELSE IF spec.cpuGen >= 8 THEN 2 * Pt
               ELSE IF spec.cpuGen >= 6 THEN Pt ELSE 0 - Pt
    IN  price + avoid + minSpec + extra + gpu + camera + device + wishes + screen + gen

scoreProduct(p, spec, feat, centerPrice, profile, req) ==
    LET mem == Nullish0(spec.memGB)
        ssd == Nullish0(spec.ssdGB)
        price == IF centerPrice > 0
                 THEN PriceBump(p.price, centerPrice)
                      - (IF p.price * 100 < 55 * centerPrice THEN 2 * Pt ELSE 0)
                 ELSE 0
        avoid == (IF profile.avoid.hddOnly /\ spec.hasHDD THEN 0 - 8 * Pt ELSE 0)
                 + (IF profile.avoid.memUnder # 0 /\ Lt(mem, profile.avoid.memUnder)
                    THEN 0 - 8 * Pt ELSE 0)
        minSpec == (IF Ge(mem, profile.minSpec.mem) THEN 4 * Pt ELSE 0)
                   + (IF Ge(ssd, profile.minSpec.ssd) THEN 3 * Pt ELSE 0)
        extra == IF centerPrice >= req.headroomCenter
                 THEN (IF Ge(mem, 16) THEN 3 * Pt ELSE 0)
                      + (IF Ge(ssd, 512) THEN 2 * Pt ELSE 0)
                 ELSE 0
        gpu == IF profile.require.gpu
               THEN (IF spec.hasGPU THEN 10 * Pt ELSE 0 - 20 * Pt) ELSE 0
        camera == IF profile.require.camera
                  THEN (IF feat.hasCamera THEN 6 * Pt ELSE 0 - 10 * Pt) ELSE 0
        device == IF req.device # "" /\ req.device # "any"
                  THEN (IF feat.deviceType = req.device THEN 4 * Pt
                        ELSE IF feat.deviceType # "any" THEN 0 - 3 * Pt ELSE 0)
                  ELSE 0
        wishes == (IF req.needsTenkey THEN (IF feat.hasTenkey THEN 2 * Pt ELSE 0 - 2 * Pt) ELSE 0)
                  + (IF req.needsCamera THEN (IF feat.hasCamera THEN 2 * Pt ELSE 0 - 2 * Pt) ELSE 0)
        screen == IF feat.inch = NullNum THEN 0
                  ELSE IF req.screen = "13-14"
                       THEN (IF feat.inch <= 145 THEN 2 * Pt ELSE 0 - Pt)
                  ELSE IF req.screen = "15.6"
                       THEN (IF feat.inch >= 150 THEN 2 * Pt ELSE 0 - Pt)
                  ELSE 0
        gen == IF spec.cpuGen = NullNum THEN 0
               ELSE IF spec.cpuGen >= 8 THEN 2 * Pt
               ELSE IF spec.cpuGen >= 6 THEN Pt ELSE 0 - Pt
    IN  price + avoid + minSpec + extra + gpu + camera + device + wishes + screen + gen

(***************************************************************************)
(* CSV reader with its 60 s cache.  A data line of the file is the record  *)
(* of its columns, the header line is implicit.                            *)
(***************************************************************************)
CacheTtl == 60 * 1000

RECURSIVE Zeros(_)
Zeros(k) == IF k <= 0 THEN "" ELSE "0" \o Zeros(k - 1)

\* String(systemCode).padStart(12, "0")
PadStart12(code) == Zeros(12 - Len(code)) \o code

\* lines.slice(1).map(...): one row per data line
MakeRow(line) ==
    [ sku |-> StrOr(line.originalCode, line.systemCode),
      systemCode |-> line.systemCode,
      name |-> line.name,
      description |-> <<line.name, line.opt>>,
      price |-> line.price,
      quantity |-> line.quantity,
      url |-> IF line.systemCode # ""
              THEN "https://www.alpaca-pc.com/view/item/" \o PadStart12(line.systemCode)
              ELSE "" ]

readIgnoresTtl(c, f, t) ==
    IF c.rows # None
    THEN [threw |-> FALSE, read |-> FALSE, rows |-> c.rows[1], cache |-> c]
    ELSE IF ~f.readable
    THEN [threw |-> TRUE, read |-> TRUE, rows |-> << >>, cache |-> c]
    ELSE IF 1 + Len(f.data) < 2
    THEN [threw |-> FALSE, read |-> TRUE, rows |-> << >>, cache |-> c]
    ELSE LET rs == [i \in 1..Len(f.data) |-> MakeRow(f.data[i])]
         IN  [threw |-> FALSE, read |-> TRUE, rows |-> rs,
              cache |-> [at |-> t, rows |-> Some(rs)]]

readSwallowsError(c, f, t) ==
    IF c.rows # None /\ t - c.at < CacheTtl
    THEN [threw |-> FALSE, read |-> FALSE, rows |-> c.rows[1], cache |-> c]
    ELSE IF ~f.readable
    THEN [threw |-> FALSE, read |-> TRUE, rows |-> << >>, cache |-> c]
    ELSE IF 1 + Len(f.data) < 2
    THEN [threw |-> FALSE, read |-> TRUE, rows |-> << >>, cache |-> c]
    ELSE LET rs == [i \in 1..Len(f.data) |-> MakeRow(f.data[i])]
         IN  [threw |-> FALSE, read |-> TRUE, rows |-> rs,
              cache |-> [at |-> t, rows |-> Some(rs)]]

\* the result of one call: whether it threw, whether it called
\* fs.readFileSync, the rows returned, and _cache afterwards
readProductsFromMakeshopCsv(c, f, t) ==
    IF c.rows # None /\ t - c.at < CacheTtl
    THEN [threw |-> FALSE, read |-> FALSE, rows |-> c.rows[1], cache |-> c]
    ELSE IF ~f.readable
    THEN [threw |-> TRUE, read |-> TRUE, rows |-> << >>, cache |-> c]
    ELSE IF 1 + Len(f.data) < 2
    THEN [threw |-> FALSE, read |-> TRUE, rows |-> << >>, cache |-> c]
    ELSE LET rs == [i \in 1..Len(f.data) |-> MakeRow(f.data[i])]
         IN  [threw |-> FALSE, read |-> TRUE, rows |-> rs,
              cache |-> [at |-> t, rows |-> Some(rs)]]

(***************************************************************************)
(* Selector                                                                *)
(***************************************************************************)
AnyStock(p) == TRUE

InStock(p) == p.quantity > 0
Priced(p) == p.price > 0

EligibleNoCeiling(rs, budgetMax) ==
    SelectSeq(SelectSeq(rs, InStock), Priced)

\* .filter(quantity > 0).filter(price > 0).filter(price <= budgetMax)
Eligible(rs, budgetMax) ==
    LET within(p) == p.price <= budgetMax
    IN  SelectSeq(SelectSeq(SelectSeq(rs, InStock), Priced), within)

\* the words of `${p.name}\n${p.description}`
SpecText(p) == Words(p.name) \o Words(p.description[1]) \o Words(p.description[2])

SurvivesAll(spec, feat, profile) == TRUE

\* the two continue statements of the scan
Survives(spec, feat, profile) ==
    /\ ~(profile.require.camera /\ ~feat.hasCamera)
    /\ ~(profile.require.gpu /\ ~spec.hasGPU)

\* let bestScore = -1e9: below every score (here -1e9 units of 1/10000 point)
BestInit == 0 - 1000000000

BetterAboveZero(sc, bestScore) == sc > bestScore /\ sc > 0

BetterOrEqual(sc, bestScore) == sc >= bestScore

Better(sc, bestScore) == sc > bestScore

\* the for loop of pickOne from position i on; best is the position of the
\* best candidate so far, 0 for null.  Scan is the loop head, Visit the body
\* of one iteration once spec and feat are parsed, Compare its last statement
\* once the score is known
RECURSIVE Scan(_, _, _, _, _, _, _)
RECURSIVE Visit(_, _, _, _, _, _, _, _, _)
RECURSIVE Compare(_, _, _, _, _, _, _, _)

Compare(all, i, best, bestScore, centerPrice, profile, reqPref, sc) ==
    IF Better(sc, bestScore)
    THEN Scan(all, i + 1, i, sc, centerPrice, profile, reqPref)
    ELSE Scan(all, i + 1, best, bestScore, centerPrice, profile, reqPref)

Visit(all, i, best, bestScore, centerPrice, profile, reqPref, spec, feat) ==
    IF ~Survives(spec, feat, profile)
    THEN Scan(all, i + 1, best, bestScore, centerPrice, profile, reqPref)
    ELSE Compare(all, i, best, bestScore, centerPrice, profile, reqPref,
                 scoreProduct(all[i], spec, feat, centerPrice, profile, reqPref))

Scan(all, i, best, bestScore, centerPrice, profile, reqPref) ==
    IF i > Len(all) THEN best
    ELSE Visit(all, i, best, bestScore, centerPrice, profile, reqPref,
               parseSpec(SpecText(all[i])), parseFeatures(Words(all[i].name)))

\* the record pickOne returns for the best candidate
Recommendation(label, p, spec, feat) ==
    [ tier |-> label,
      name |-> p.name,
      price |-> p.price,
      url |-> p.url,
      sku |-> p.sku,
      spec |-> [ cpu |-> spec.cpu,
                 memGB |-> spec.memGB,
                 ssdGB |-> spec.ssdGB,
                 gpu |-> spec.hasGPU,
                 camera |-> feat.hasCamera,
                 tenkey |-> feat.hasTenkey,
                 device |-> feat.deviceType,
                 inch |-> feat.inch ] ]

Picked(all, best, label) ==
    IF best = 0 THEN None
    ELSE Some(Recommendation(label, all[best], parseSpec(SpecText(all[best])),
                             parseFeatures(Words(all[best].name))))

pickOne(all, centerPrice, label, profile, reqPref) ==
    Picked(all, Scan(all, 1, 0, BestInit, centerPrice, profile, reqPref), label)

\* const key = x.sku || x.url || x.name
Key(x) == StrOr(x.sku, StrOr(x.url, x.name))

RECURSIVE UniqKeepAll(_, _, _, _)
UniqKeepAll(xs, i, uniq, seen) ==
    IF i > Len(xs) THEN uniq
    ELSE IF xs[i] = None THEN UniqKeepAll(xs, i + 1, uniq, seen)
    ELSE UniqKeepAll(xs, i + 1, Append(uniq, xs[i][1]), seen \cup {Key(xs[i][1])})

RECURSIVE UniqReversed(_, _, _, _)
UniqReversed(xs, i, uniq, seen) ==
    IF i > Len(xs) THEN uniq
    ELSE IF xs[Len(xs) + 1 - i] = None THEN UniqReversed(xs, i + 1, uniq, seen)
    ELSE IF Key(xs[Len(xs) + 1 - i][1]) \in seen THEN UniqReversed(xs, i + 1, uniq, seen)
    ELSE UniqReversed(xs, i + 1, Append(uniq, xs[Len(xs) + 1 - i][1]),
                      seen \cup {Key(xs[Len(xs) + 1 - i][1])})

\* the de-duplication loop over [enough, comfort, headroom] from position i
\* on, with the list and the set of keys collected so far
RECURSIVE Uniq(_, _, _, _)
Uniq(xs, i, uniq, seen) ==
    IF i > Len(xs) THEN uniq
    ELSE IF xs[i] = None THEN Uniq(xs, i + 1, uniq, seen)
    ELSE IF Key(xs[i][1]) \in seen THEN Uniq(xs, i + 1, uniq, seen)
    ELSE Uniq(xs, i + 1, Append(uniq, xs[i][1]), seen \cup {Key(xs[i][1])})

(***************************************************************************)
(* The bounded world: the data lines a catalog file is made of, and the    *)
(* requests a client sends.                                                *)
(***************************************************************************)
MaxRows == 2
MaxTicks == 2

Line(sys, orig, name, opt, price, quantity) ==
    [systemCode |-> sys, originalCode |-> orig, name |-> name, opt |-> opt,
     price |-> price, quantity |-> quantity]

Shelf ==
    { Line("101", "A1", NameA, OptNone, 19800, 1),
      Line("102", "A1", NameB, OptNone, 34800, 2),
      Line("103", "",   NameC, OptNone, 59800, 1),
      Line("104", "B4", NameB, OptNone, 29800, 0),
      Line("",    "",   NameD, OptNone, 9800, 3),
      Line("106", "",   NameE, OptRtx,  39800, 1),
      Line("107", "C7", NameA, OptNone, 0, 1) }

Catalogs == UNION { [1..k -> Shelf] : k \in 0..MaxRows }

Body(useCase, budget, device, needsCamera, needsTenkey, screen) ==
    [useCase |-> useCase, budget |-> budget, device |-> device,
     needsCamera |-> needsCamera, needsTenkey |-> needsTenkey, screen |-> screen]

\* an absent string field is "", an absent budget is None
Bodies ==
    { Body(u, b, "", FALSE, FALSE, "") :
        u \in {"", "zoom", "game", "study", "constructor"},
        b \in {None, Some(30000)} }
    \cup { Body("", Some(0), "", FALSE, FALSE, ""),
           Body("game", None, "laptop", FALSE, FALSE, ""),
           Body("zoom", None, "laptop", TRUE, FALSE, ""),
           Body("office", None, "desktop", TRUE, TRUE, "13-14"),
           Body("creator", Some(60000), "any", FALSE, TRUE, "15.6"),
           Body("creator", Some(40000), "", FALSE, FALSE, ""),
           Body("office", Some(20000), "desktop", FALSE, FALSE, ""),
           Body("zoom", Some(10000), "", FALSE, FALSE, "") }

NoRequest == [method |-> "", body |-> Body("", None, "", FALSE, FALSE, "")]

NoMeta == [useCase |-> "", useCaseLabel |-> "", budgetMax |-> 0, device |-> "",
           pricing |-> [target |-> 0, enough |-> 0, comfort |-> 0, headroom |-> 0]]

NoResponse == [status |-> 0, ok |-> FALSE, error |-> "", meta |-> NoMeta, products |-> << >>]

NoPicks == <<None, None, None>>

NoPlan == [useCase |-> "office", budgetMax |-> 0, devicePref |-> "any", out |-> None]

NoParse == [text |-> << >>, out |-> None]

\* the product URLs fetchOgImage is called with
Urls ==
    { "", "https://www.alpaca-pc.com/view/item/000000000101",
      "https://www.alpaca-pc.com/view/item/000000000102" }

\* new Map(): no url has an entry
NoImages == [u \in Urls |-> None]

Init ==
    /\ file \in [readable : BOOLEAN, data : Catalogs]
    /\ cache = [at |-> 0, rows |-> None]
    /\ now = 2 * CacheTtl
    /\ request = NoRequest
    /\ resp = NoResponse
    /\ rows = None
    /\ picks = NoPicks
    /\ fsRead = FALSE
    /\ plan = NoPlan
    /\ parse = NoParse
    /\ imgCache = NoImages
    /\ imgCalls = << >>

(***************************************************************************)
(* The handler                                                             *)
(***************************************************************************)
\* sendJson(res, status, { ok: false, error })
Failure(status, error) ==
    [status |-> status, ok |-> FALSE, error |-> error, meta |-> NoMeta, products |-> << >>]

\* req.method === "OPTIONS": 204 without a body
Preflight ==
    /\ request' = [method |-> "OPTIONS", body |-> NoRequest.body]
    /\ resp' = [NoResponse EXCEPT !.status = 204]
    /\ rows' = None
    /\ picks' = NoPicks
    /\ fsRead' = FALSE
    /\ UNCHANGED <<file, cache, now, plan, parse, imgCache, imgCalls>>

\* req.method !== "POST"
MethodNotAllowed ==
    /\ request' = [method |-> "GET", body |-> NoRequest.body]
    /\ resp' = Failure(405, "POST only")
    /\ rows' = None
    /\ picks' = NoPicks
    /\ fsRead' = FALSE
    /\ UNCHANGED <<file, cache, now, plan, parse, imgCache, imgCalls>>

\* the try block of the handler for a POST with this body, from the call of
\* readProductsFromMakeshopCsv on
Select(body, useCase, budgetMax, device, profile, centers, reqPref, rd, all) ==
    \E enough \in {pickOne(all, centers.enough, "enough", profile, reqPref)} :
    \E comfort \in {pickOne(all, centers.comfort, "comfort", profile, reqPref)} :
    \E headroom \in {pickOne(all, centers.headroom, "headroom", profile, reqPref)} :
        /\ resp' = [status |-> 200, ok |-> TRUE, error |-> "",
                    meta |-> [useCase |-> useCase, useCaseLabel |-> profile.label,
                              budgetMax |-> budgetMax, device |-> device,
                              pricing |-> centers],
                    products |-> Uniq(<<enough, comfort, headroom>>, 1, << >>, {})]
        /\ rows' = Some(rd.rows)
        /\ picks' = <<enough, comfort, headroom>>
        /\ fsRead' = rd.read
        /\ cache' = rd.cache

\* the handler for a POST with this body
Recommend(body) ==
    \E useCase \in {StrOr(body.useCase, "office")} :
    \E budgetMax \in {IF body.budget = None THEN 60000 ELSE body.budget[1]} :
    \E device \in {StrOr(body.device, "any")} :
    \E profile \in {getProfile(useCase)} :
        /\ request' = [method |-> "POST", body |-> body]
        /\ UNCHANGED <<file, now, plan, parse, imgCache, imgCalls>>
        /\ IF "target" \notin DOMAIN profile
           THEN \* profile.target is undefined: computeTargetBudget throws
                /\ resp' = Failure(500, "TypeError")
                /\ rows' = None
                /\ picks' = NoPicks
                /\ fsRead' = FALSE
                /\ UNCHANGED cache
           ELSE
           \E centers \in {computeTargetBudget(profile, budgetMax, device)} :
           \E rd \in {readProductsFromMakeshopCsv(cache, file, now)} :
               IF rd.threw
               THEN /\ resp' = Failure(500, "Error")
                    /\ rows' = None
                    /\ picks' = NoPicks
                    /\ fsRead' = rd.read
                    /\ UNCHANGED cache
               ELSE Select(body, useCase, budgetMax, device, profile, centers,
                           [device |-> device, needsCamera |-> body.needsCamera,
                            needsTenkey |-> body.needsTenkey, screen |-> body.screen,
                            headroomCenter |-> centers.headroom],
                           rd, Eligible(rd.rows, budgetMax))

(***************************************************************************)
(* The environment: time passes, the file becomes unreadable or readable   *)
(* again, and the file is replaced by another export of the catalog.       *)
(***************************************************************************)
Tick ==
    /\ now + CacheTtl \div 2 <= 2 * CacheTtl + MaxTicks * (CacheTtl \div 2)
    /\ now' = now + CacheTtl \div 2
    /\ UNCHANGED <<file, cache, request, resp, rows, picks, fsRead, plan, parse,
                   imgCache, imgCalls>>

Chmod ==
    /\ file' = [file EXCEPT !.readable = ~@]
    /\ UNCHANGED <<cache, now, request, resp, rows, picks, fsRead, plan, parse,
                   imgCache, imgCalls>>

Rewrite ==
    /\ \E data \in Catalogs :
          /\ Len(data) <= 1
          /\ data # file.data
          /\ file' = [file EXCEPT !.data = data]
    /\ UNCHANGED <<cache, now, request, resp, rows, picks, fsRead, plan, parse,
                   imgCache, imgCalls>>

Next ==
    \/ Preflight
    \/ MethodNotAllowed
    \/ \E body \in Bodies : Recommend(body)
    \/ Tick
    \/ Chmod
    \/ Rewrite

\* every action, on the catalogs of at most one data line
InitSmall ==
    /\ Init
    /\ Len(file.data) <= 1

Spec == InitSmall /\ [][Next]_vars

\* the handler alone, on every catalog: the file and the clock stay as they are
NextSelect ==
    \/ Preflight
    \/ MethodNotAllowed
    \/ \E body \in Bodies : Recommend(body)

SpecSelect == Init /\ [][NextSelect]_vars

(***************************************************************************)
(* The planner on its own: one call of computeTargetBudget per behaviour   *)
(***************************************************************************)
Ceilings ==
    { 0 - 5, 0, 1, 5000, 9999, 10000, 15000, 20000, 21000, 22000, 30000,
      50000, 60000, 70000, 120000, 1000000 }

DevicePrefs == {"any", "laptop", "desktop", "tablet", ""}

InitPlanner ==
    /\ file = [readable |-> TRUE, data |-> << >>]
    /\ cache = [at |-> 0, rows |-> None]
    /\ now = 2 * CacheTtl
    /\ request = NoRequest
    /\ resp = NoResponse
    /\ rows = None
    /\ picks = NoPicks
    /\ fsRead = FALSE
    /\ parse = NoParse
    /\ imgCache = NoImages
    /\ imgCalls = << >>
    /\ plan \in [useCase : DOMAIN base, budgetMax : Ceilings,
                 devicePref : DevicePrefs, out : {None}]

Plan ==
    /\ plan.out = None
    /\ plan' = [plan EXCEPT !.out =
                  Some(computeTargetBudget(base[plan.useCase], plan.budgetMax, plan.devicePref))]
    /\ UNCHANGED <<file, cache, now, request, resp, rows, picks, fsRead, parse,
                   imgCache, imgCalls>>

NextPlanner == Plan

SpecPlanner == InitPlanner /\ [][NextPlanner]_vars

(***************************************************************************)
(* Properties of the planner, checked under SpecPlanner                    *)
(***************************************************************************)
Planned == plan.out # None
Anchors == plan.out[1]
PlanBaseline == Baseline(base[plan.useCase], plan.devicePref)

\* C1: for every profile, buyer ceiling and device preference the anchors
\* computeTargetBudget returns are ordered: enough <= comfort <= headroom.
C1_AnchorsOrdered ==
    Planned => Anchors.enough <= Anchors.comfort /\ Anchors.comfort <= Anchors.headroom

\* a ceiling below the floor of 10000: the clamp of enough has its lower
\* bound above its upper bound
C1_Witness ==
    /\ Planned
    /\ plan.budgetMax \in 1..9999
    /\ Anchors.enough = 10000
    /\ Anchors.headroom = 10000

\* C2 as stated: the headroom anchor is at most
\* max(buyerCeiling, round(target * 1.8)).
C2_HeadroomBelowCeilingOrUnclamped ==
    Planned => Anchors.headroom <= Max(plan.budgetMax, Round18(Anchors.target))

\* C2 amended: the headroom anchor is at most
\* max(buyerCeiling, round(target * 1.8), 10000), the floor of the enough
\* anchor included.
C2_HeadroomBound ==
    Planned => Anchors.headroom <= Max(Max(plan.budgetMax, Round18(Anchors.target)), 10000)

\* the floor decides: the ceiling and the unclamped headroom are both below it
C2_Witness ==
    /\ Planned
    /\ plan.budgetMax = 5000
    /\ Round18(Anchors.target) = 9000
    /\ Anchors.headroom = 10000

\* C3 as stated: for every non-negative ceiling the target is
\* min(buyerCeiling, baseline).
C3_TargetIsMinOfCeilingAndBaseline ==
    (Planned /\ plan.budgetMax >= 0) =>
        Anchors.target = Min(plan.budgetMax, PlanBaseline)

\* C3 amended: for every positive ceiling the target is
\* min(buyerCeiling, baseline), so it exceeds neither; for the ceiling 0,
\* which the planner reads as no ceiling, the target is the baseline.
C3_TargetCapped ==
    Planned =>
        /\ plan.budgetMax > 0 => Anchors.target = Min(plan.budgetMax, PlanBaseline)
        /\ plan.budgetMax = 0 => Anchors.target = PlanBaseline

\* a ceiling far above the baseline of an unrecognized device preference:
\* the target stays at the `any` baseline
C3_Witness ==
    /\ Planned
    /\ plan.devicePref = "tablet"
    /\ plan.budgetMax > 10 * base[plan.useCase].target.any
    /\ Anchors.target = base[plan.useCase].target.any

(***************************************************************************)
(* Properties of the selector, checked under SpecSelect.  They are stated  *)
(* on the request, the rows the reader returned, the three picks and the   *)
(* response, without the operators of the scan and of the de-duplication.  *)
(***************************************************************************)
Posted == request.method = "POST"
Served == Posted /\ resp.status = 200
ReqUseCase == StrOr(request.body.useCase, "office")
ReqBudget == IF request.body.budget = None THEN 60000 ELSE request.body.budget[1]
ReqProfile == getProfile(ReqUseCase)
ReqPref == [device |-> StrOr(request.body.device, "any"),
            needsCamera |-> request.body.needsCamera,
            needsTenkey |-> request.body.needsTenkey,
            screen |-> request.body.screen,
            headroomCenter |-> resp.meta.pricing.headroom]

TierLabel == <<"enough", "comfort", "headroom">>
TierCenter ==
    <<resp.meta.pricing.enough, resp.meta.pricing.comfort, resp.meta.pricing.headroom>>
TierRank(label) == CHOOSE k \in 1..3 : TierLabel[k] = label

PickSet == { k \in 1..3 : picks[k] # None }
Listed == 1..Len(resp.products)

\* quantity > 0, price > 0, price <= the buyer's ceiling
ClaimEligible(p) == p.quantity > 0 /\ p.price > 0 /\ p.price <= ReqBudget

\* the hard requirement of the request's profile is detected on the row
HardOk(p) ==
    /\ ReqProfile.require.gpu => parseSpec(SpecText(p)).hasGPU
    /\ ReqProfile.require.camera => parseFeatures(Words(p.name)).hasCamera

\* the recommendation x shows the catalog row p
FromRow(x, p) == x.name = p.name /\ x.price = p.price /\ x.url = p.url /\ x.sku = p.sku

\* two recommendations show the same catalog row
SameRow(x, y) == x.name = y.name /\ x.price = y.price /\ x.url = y.url /\ x.sku = y.sku

\* sku if non-empty, else URL if non-empty, else name
ClaimKey(x) == IF x.sku # "" THEN x.sku ELSE IF x.url # "" THEN x.url ELSE x.name

\* the eligible rows in catalog order, and those that pass the hard filter
Candidates == SelectSeq(rows[1], ClaimEligible)
Survivors == { i \in 1..Len(Candidates) : HardOk(Candidates[i]) }
ScoreAt(i, k) ==
    scoreProduct(Candidates[i], parseSpec(SpecText(Candidates[i])),
                 parseFeatures(Words(Candidates[i].name)),
                 TierCenter[k], ReqProfile, ReqPref)

\* C4: every recommendation, of a tier and of the final list, shows a
\* catalog row with quantity > 0, price > 0 and price <= the buyer's ceiling.
C4_OnlyEligibleRows ==
    Served =>
        /\ \A k \in PickSet :
             \E j \in 1..Len(rows[1]) :
                FromRow(picks[k][1], rows[1][j]) /\ ClaimEligible(rows[1][j])
        /\ \A i \in Listed :
             \E j \in 1..Len(rows[1]) :
                FromRow(resp.products[i], rows[1][j]) /\ ClaimEligible(rows[1][j])

\* a recommendation is returned from a catalog whose first row meets the
\* hard requirement but is out of stock, without a price or above the ceiling
C4_Witness ==
    /\ Served
    /\ resp.products # << >>
    /\ Len(rows[1]) = 2
    /\ ~ClaimEligible(rows[1][1])
    /\ HardOk(rows[1][1])

\* C5: when the profile requires a discrete GPU (game) or a camera (zoom),
\* every recommendation of every tier shows a row on which it is detected.
C5_HardRequirementMet ==
    Served =>
        \A k \in PickSet :
            /\ ReqProfile.require.gpu => picks[k][1].spec.gpu
            /\ ReqProfile.require.camera => picks[k][1].spec.camera
            /\ \E j \in 1..Len(rows[1]) :
                  FromRow(picks[k][1], rows[1][j]) /\ HardOk(rows[1][j])

\* game: an eligible row without GPU stands before the picked row with GPU
C5_Witness ==
    /\ Served
    /\ ReqProfile.require.gpu
    /\ Len(Candidates) = 2
    /\ ~parseSpec(SpecText(Candidates[1])).hasGPU
    /\ picks[1] # None
    /\ FromRow(picks[1][1], Candidates[2])

\* C6: the final list has at most 3 entries, in tier order, and no two of
\* them have the same key (sku, else URL, else name).
C6_ListDeduplicated ==
    Served =>
        /\ Len(resp.products) <= 3
        /\ \A i, j \in Listed :
              i < j => /\ TierRank(resp.products[i].tier) < TierRank(resp.products[j].tier)
                       /\ ClaimKey(resp.products[i]) # ClaimKey(resp.products[j])

\* three picks, two entries: a later pick was dropped for its key
C6_Witness ==
    /\ Served
    /\ PickSet = 1..3
    /\ Len(resp.products) = 2
    /\ resp.products[2].tier = "headroom"

\* C7: the pick of a tier shows a survivor of the hard filter whose score
\* no survivor exceeds and no earlier survivor reaches.
C7_FirstMaximumWins ==
    Served =>
        \A k \in PickSet :
            \E i \in Survivors :
                /\ FromRow(picks[k][1], Candidates[i])
                /\ picks[k][1].tier = TierLabel[k]
                /\ \A j \in Survivors : ScoreAt(j, k) <= ScoreAt(i, k)
                /\ \A j \in Survivors : j < i => ScoreAt(j, k) < ScoreAt(i, k)

\* two different rows share the maximum score of the enough tier, and the
\* first of them is the pick
C7_Witness ==
    /\ Served
    /\ Survivors = {1, 2}
    /\ ~SameRow(Candidates[1], Candidates[2])
    /\ ScoreAt(1, 1) = ScoreAt(2, 1)
    /\ picks[1] # None
    /\ FromRow(picks[1][1], Candidates[1])

\* C8: for every use-case identifier other than office, zoom, creator and
\* game, getProfile returns the office profile and the identifier raises no
\* error in the request.
C8_UnknownUseCaseIsOffice ==
    (Posted /\ ReqUseCase \notin {"office", "zoom", "creator", "game"}) =>
        /\ getProfile(ReqUseCase) = base.office
        /\ resp.error # "TypeError"

\* the rows of the catalog file
FileRows == [j \in 1..Len(file.data) |-> MakeRow(file.data[j])]

\* C9: when the catalog is read and none of its rows is eligible and passes
\* the hard filter, the three tiers return none, the final list is empty
\* and the response is a success (ok, status 200).
C9_NoSurvivorIsSuccess ==
    ( /\ Posted
      /\ file.readable
      /\ "target" \in DOMAIN ReqProfile
      /\ \A j \in 1..Len(FileRows) :
            ~(ClaimEligible(FileRows[j]) /\ HardOk(FileRows[j])) ) =>
        /\ picks = NoPicks
        /\ resp.products = << >>
        /\ resp.ok
        /\ resp.status = 200

\* game, and the only rows with a GPU are in stock but above the ceiling
C9_Witness ==
    /\ Posted
    /\ ReqUseCase = "game"
    /\ file.readable
    /\ \E j \in 1..Len(FileRows) :
          /\ parseSpec(SpecText(FileRows[j])).hasGPU
          /\ FileRows[j].quantity > 0
          /\ FileRows[j].price > ReqBudget
    /\ picks = NoPicks
    /\ resp.products = << >>
    /\ resp.status = 200

\* the first tier whose pick satisfies the test
FirstPick(Test(_)) == CHOOSE k \in PickSet :
                         Test(picks[k][1]) /\ \A m \in PickSet : Test(picks[m][1]) => k <= m

\* exactly one row of the catalog is eligible and passes the hard filter
OneSurvivor == Cardinality(Survivors) = 1

SingleEntryForSurvivor ==
    OneSurvivor =>
        /\ Len(resp.products) = 1
        /\ resp.products[1].tier = "enough"
        /\ \A i \in Survivors : FromRow(resp.products[1], Candidates[i])

\* C10 as stated: a row that wins more than one tier is listed exactly once,
\* with the label of the earliest tier that picked it; a single eligible
\* row that passes the hard filter gives a single entry labelled enough.
C10_RowListedOnceWithFirstLabel ==
    Served =>
        /\ \A k, l \in PickSet :
              (k < l /\ SameRow(picks[k][1], picks[l][1])) =>
                 LET Same(x) == SameRow(x, picks[k][1])
                 IN  /\ Cardinality({ i \in Listed : Same(resp.products[i]) }) = 1
                     /\ \A i \in Listed :
                           Same(resp.products[i]) =>
                              resp.products[i].tier = TierLabel[FirstPick(Same)]
        /\ SingleEntryForSurvivor

\* C10 amended: when a row wins more than one tier, exactly one entry of
\* the final list has the key of that row, and it is the pick of the
\* earliest tier whose pick has that key (this row, unless another row with
\* the same key won an earlier tier); a single eligible row that passes the
\* hard filter gives a single entry labelled enough.
C10_KeyListedOnceWithFirstLabel ==
    Served =>
        /\ \A k, l \in PickSet :
              (k < l /\ SameRow(picks[k][1], picks[l][1])) =>
                 LET SameKey(x) == ClaimKey(x) = ClaimKey(picks[k][1])
                 IN  /\ Cardinality({ i \in Listed : SameKey(resp.products[i]) }) = 1
                     /\ \A i \in Listed :
                           SameKey(resp.products[i]) =>
                              resp.products[i] = picks[FirstPick(SameKey)][1]
        /\ SingleEntryForSurvivor

\* one row of two is eligible; it wins the three tiers and is listed once
C10_Witness ==
    /\ Served
    /\ Len(rows[1]) = 2
    /\ OneSurvivor
    /\ PickSet = 1..3
    /\ SameRow(picks[1][1], picks[3][1])
    /\ Len(resp.products) = 1
    /\ resp.products[1].tier = "enough"

(***************************************************************************)
(* Scenario A, checked under SpecSelect                                    *)
(***************************************************************************)
\* an in-stock row with this price, memory and SSD size
ScenarioRow(p, price, mem, ssd) ==
    /\ p.price = price
    /\ p.quantity > 0
    /\ parseSpec(SpecText(p)).memGB = mem
    /\ parseSpec(SpecText(p)).ssdGB = ssd

\* use case office, ceiling 60000, device any, no wishes, and a catalog of
\* the two rows of the scenario in either order
ScenarioA ==
    /\ Served
    /\ ReqUseCase = "office"
    /\ ReqBudget = 60000
    /\ ReqPref.device = "any"
    /\ ~ReqPref.needsCamera /\ ~ReqPref.needsTenkey /\ ReqPref.screen = ""
    /\ Len(rows[1]) = 2
    /\ \E c, d \in 1..2 :
          /\ c # d
          /\ ScenarioRow(rows[1][c], 39800, 8, 256)
          /\ ScenarioRow(rows[1][d], 59800, 16, 512)

ScenarioAPlanned ==
    /\ resp.meta.pricing.enough = 20000
    /\ resp.meta.pricing.headroom = 36000
    /\ \A j \in 1..2 : ClaimEligible(rows[1][j])

\* C11 as stated: in scenario A the anchors are enough = 20000 and
\* headroom = 36000, both rows are eligible, and the enough tier picks the
\* 39800 row, for either order of the two rows in the catalog.
C11_EnoughPicksCheaperRow ==
    ScenarioA =>
        /\ ScenarioAPlanned
        /\ picks[1] # None
        /\ picks[1][1].price = 39800

\* C11 amended: in scenario A the anchors are enough = 20000 and
\* headroom = 36000, both rows are eligible, the two rows have the same
\* score in the enough tier, and the enough tier picks the row that stands
\* first in the catalog: the 39800 row only when it precedes the 59800 row.
C11_EnoughPicksFirstRow ==
    ScenarioA =>
        /\ ScenarioAPlanned
        /\ ScoreAt(1, 1) = ScoreAt(2, 1)
        /\ picks[1] # None
        /\ FromRow(picks[1][1], rows[1][1])

\* the 59800 row stands first and is the pick of the enough tier
C11_Witness ==
    /\ ScenarioA
    /\ rows[1][1].price = 59800
    /\ picks[1] # None
    /\ picks[1][1].price = 59800
    /\ picks[1][1].tier = "enough"

(***************************************************************************)
(* parseSpec on its own: one call per behaviour, on every text of at most  *)
(* MaxWords words                                                          *)
(***************************************************************************)
MaxWords == 3

TextWords ==
    { W("SSD"), W("memory"), W("HDD"), C(1, "TB"), C(2, "TB"), C(16, "TB"),
      C(512, "GB"), C(8, "GB") }

Texts == UNION { [1..k -> TextWords] : k \in 0..MaxWords }

InitParse ==
    /\ file = [readable |-> TRUE, data |-> << >>]
    /\ cache = [at |-> 0, rows |-> None]
    /\ now = 2 * CacheTtl
    /\ request = NoRequest
    /\ resp = NoResponse
    /\ rows = None
    /\ picks = NoPicks
    /\ fsRead = FALSE
    /\ plan = NoPlan
    /\ imgCache = NoImages
    /\ imgCalls = << >>
    /\ parse \in [text : Texts, out : {None}]

ParseSpec ==
    /\ parse.out = None
    /\ parse' = [parse EXCEPT !.out = Some(parseSpec(parse.text))]
    /\ UNCHANGED <<file, cache, now, request, resp, rows, picks, fsRead, plan,
                   imgCache, imgCalls>>

NextParse == ParseSpec

SpecParse == InitParse /\ [][NextParse]_vars

(***************************************************************************)
(* fetchOgImage with its 6 h cache (api/recommend.js).  The function is    *)
(* async: a call runs up to its first await, and the calls in flight       *)
(* continue in any order, as under Promise.all(top.map(...)) or under two  *)
(* requests served at once.                                                *)
(***************************************************************************)
MaxCalls == 3
MaxLate == 0

ImgTtl == 6 * 60 * 60 * 1000

\* the instants of Date.now() a call may start at, counted from the first
\* call: one millisecond later, six hours later, ...
ImgTimes == {0, 1} \cup { ImgTtl + d : d \in 0..MaxLate }

\* the pages a product URL serves: the content of og:image and of
\* twitter:image, "" when the page has no such tag
Html(og, tw) == [og |-> og, tw |-> tw]
Pages == { Html("og.jpg", "tw.jpg"), Html("", "tw.jpg"), Html("", "") }

\* html.match(og:image) || html.match(twitter:image); m ? m[1] : ""
OgImage(html) == IF html.og # "" THEN html.og ELSE html.tw

IsHitUnlessEmpty(hit, t) ==
    hit # None /\ hit[1].imageUrl # "" /\ t - hit[1].at < ImgTtl

\* hit && now - hit.at < 6 * 60 * 60 * 1000
IsHit(hit, t) == hit # None /\ t - hit[1].at < ImgTtl

ImgCallIds == 1..Len(imgCalls)

Settled(c) == c.pc \in {"resolved", "rejected"}
SettledCalls == { i \in ImgCallIds : Settled(imgCalls[i]) }

\* a call of fetchOgImage: its argument, its local now, where it stands
\* ("fetch": awaiting fetch(), "text": awaiting res.text()), whether it
\* called fetch, whether it went through catch, the value it resolved to,
\* the calls settled when it started and its place in the order of settling
Call(url, at, pc, fetched, value) ==
    [url |-> url, at |-> at, pc |-> pc, fetched |-> fetched, failed |-> FALSE,
     value |-> value, after |-> SettledCalls,
     rank |-> IF pc = "fetch" THEN 0 ELSE Cardinality(SettledCalls) + 1]

\* the call resolves to value
Resolve(c, value, failed) ==
    [c EXCEPT !.pc = "resolved", !.value = value, !.failed = failed,
              !.rank = Cardinality(SettledCalls) + 1]

\* fetchOgImage(productUrl) up to its first await
ImgCall(url) ==
    /\ Len(imgCalls) < MaxCalls
    /\ imgCalls' = Append(imgCalls,
          IF url = "" THEN Call(url, now, "resolved", FALSE, "")
          ELSE IF IsHit(imgCache[url], now)
               THEN Call(url, now, "resolved", FALSE, imgCache[url][1].imageUrl)
          ELSE Call(url, now, "fetch", TRUE, ""))
    /\ UNCHANGED <<file, cache, now, request, resp, rows, picks, fsRead, plan, parse,
                   imgCache>>

\* the catch block: _imgCache.set(productUrl, { at: now, imageUrl: "" })
ImgCatch(i) ==
    /\ imgCache' = [imgCache EXCEPT ![imgCalls[i].url] =
                       Some([at |-> imgCalls[i].at, imageUrl |-> ""])]
    /\ imgCalls' = [imgCalls EXCEPT ![i] = Resolve(@, "", TRUE)]

\* await fetch(productUrl) returns a response
ImgFetchResponds(i) ==
    /\ imgCalls[i].pc = "fetch"
    /\ imgCalls' = [imgCalls EXCEPT ![i].pc = "text"]
    /\ UNCHANGED <<file, cache, now, request, resp, rows, picks, fsRead, plan, parse,
                   imgCache>>

\* await fetch(productUrl) throws
ImgFetchThrows(i) ==
    /\ imgCalls[i].pc = "fetch"
    /\ ImgCatch(i)
    /\ UNCHANGED <<file, cache, now, request, resp, rows, picks, fsRead, plan, parse>>

\* await res.text() returns the page
ImgBodyRead(i, html) ==
    /\ imgCalls[i].pc = "text"
    /\ imgCache' = [imgCache EXCEPT ![imgCalls[i].url] =
                       Some([at |-> imgCalls[i].at, imageUrl |-> OgImage(html)])]
    /\ imgCalls' = [imgCalls EXCEPT ![i] = Resolve(@, OgImage(html), FALSE)]
    /\ UNCHANGED <<file, cache, now, request, resp, rows, picks, fsRead, plan, parse>>

\* await res.text() throws
ImgBodyThrows(i) ==
    /\ imgCalls[i].pc = "text"
    /\ ImgCatch(i)
    /\ UNCHANGED <<file, cache, now, request, resp, rows, picks, fsRead, plan, parse>>

\* time passes: milliseconds while calls are in flight, hours only between
\* them (a fetch does not stay pending for hours)
ImgTick ==
    /\ \E t \in ImgTimes :
          /\ t > now
          /\ t - now > 1 => SettledCalls = ImgCallIds
          /\ now' = t
    /\ UNCHANGED <<file, cache, request, resp, rows, picks, fsRead, plan, parse,
                   imgCache, imgCalls>>

InitImage ==
    /\ file = [readable |-> TRUE, data |-> << >>]
    /\ cache = [at |-> 0, rows |-> None]
    /\ now = 0
    /\ request = NoRequest
    /\ resp = NoResponse
    /\ rows = None
    /\ picks = NoPicks
    /\ fsRead = FALSE
    /\ plan = NoPlan
    /\ parse = NoParse
    /\ imgCache = NoImages
    /\ imgCalls = << >>

NextImage ==
    \/ \E url \in Urls : ImgCall(url)
    \/ \E i \in 1..Len(imgCalls) : ImgFetchResponds(i)
    \/ \E i \in 1..Len(imgCalls) : ImgFetchThrows(i)
    \/ \E i \in 1..Len(imgCalls) : \E html \in Pages : ImgBodyRead(i, html)
    \/ \E i \in 1..Len(imgCalls) : ImgBodyThrows(i)
    \/ ImgTick

SpecImage == InitImage /\ [][NextImage]_vars

(***************************************************************************)
(* Properties of parseSpec, checked under SpecParse                        *)
(***************************************************************************)
\* the positions of the capacities (a number with the unit GB or TB) that
\* stand next to an SSD keyword
SsdCapacities(ws) ==
    { i \in 1..Len(ws) :
        /\ ws[i].u \in {"GB", "TB"}
        /\ \/ i > 1 /\ ws[i - 1].w = "SSD"
           \/ i < Len(ws) /\ ws[i + 1].w = "SSD" }

\* C12: for every text in which an SSD keyword is adjacent to an integer
\* capacity with a TB unit (and to no other capacity), parseSpec returns a
\* storage size equal to that integer times 1024: 2048 for "2TB", 1024 for
\* "1TB", never null.
C12_TerabytesTimes1024 ==
    parse.out # None =>
        \A i \in 1..Len(parse.text) :
            (SsdCapacities(parse.text) = {i} /\ parse.text[i].u = "TB") =>
                parse.out[1].ssdGB = parse.text[i].n * 1024

(***************************************************************************)
(* Properties of the reader and its cache, checked under Spec.  A step     *)
(* that leaves the file and the clock as they are is a call of the handler.*)
(***************************************************************************)
HandlerStep == file' = file /\ now' = now

\* C13: if reading the catalog file fails during a request, the request
\* ends in one failure response (ok = false, status 500) without product
\* list, metadata or picks, and the catalog cache is as before the request.
C13_ReadFailureIsOneFailure ==
    [][ (HandlerStep /\ fsRead' /\ ~file.readable) =>
            /\ resp'.status = 500
            /\ ~resp'.ok
            /\ resp'.products = << >>
            /\ resp'.meta = NoMeta
            /\ picks' = NoPicks
            /\ rows' = None
            /\ cache' = cache ]_vars

\* the cache was filled, has expired, and the read of the next request
\* failed: the request failed and the expired rows are still cached
C13_Witness ==
    /\ Posted
    /\ fsRead
    /\ ~file.readable
    /\ resp.status = 500
    /\ resp.error = "Error"
    /\ cache.rows # None
    /\ now - cache.at >= CacheTtl

(***************************************************************************)
(* Further properties of the selector, checked under SpecSelect            *)
(***************************************************************************)
\* C15: within one request the three tier picks are all none or all
\* non-none: every survivor of the hard filter scores above the initial
\* best score in every tier, a tier returns none exactly when no eligible
\* row passes the hard filter, and the final list is empty exactly then.
C15_TiersAllOrNone ==
    Served =>
        /\ PickSet = {} \/ PickSet = 1..3
        /\ \A i \in Survivors : \A k \in 1..3 : ScoreAt(i, k) > BestInit
        /\ \A k \in 1..3 : picks[k] = None <=> Survivors = {}
        /\ resp.products = << >> <=> Survivors = {}

\* every row that passes the hard filter scores below zero in every tier,
\* and the three tiers still pick one
C15_Witness ==
    /\ Served
    /\ Survivors # {}
    /\ \A i \in Survivors : \A k \in 1..3 : ScoreAt(i, k) < 0
    /\ PickSet = 1..3
    /\ resp.products # << >>

\* the ceiling is at least 10000 and at most the profile's baseline for the
\* device preference
CeilingWithinBaseline ==
    /\ "target" \in DOMAIN ReqProfile
    /\ ReqBudget >= 10000
    /\ ReqBudget <= Baseline(ReqProfile, ReqPref.device)

\* the score of candidate i in tier k without the headroom-tier extra, and
\* the extra for its memory and SSD size
ScoreWithoutExtra(i, k) ==
    scoreProduct(Candidates[i], parseSpec(SpecText(Candidates[i])),
                 parseFeatures(Words(Candidates[i].name)),
                 TierCenter[k], ReqProfile,
                 [ReqPref EXCEPT !.headroomCenter = TierCenter[k] + 1])

HeadroomExtra(i) ==
    (IF Ge(Nullish0(parseSpec(SpecText(Candidates[i])).memGB), 16) THEN 3 * Pt ELSE 0)
    + (IF Ge(Nullish0(parseSpec(SpecText(Candidates[i])).ssdGB), 512) THEN 2 * Pt ELSE 0)

\* C16: when the ceiling is at least 10000 and at most the profile baseline
\* for the device preference, enough = comfort = headroom = ceiling, every
\* candidate has the same score in the three tiers, the headroom-tier extra
\* included, the three tiers pick the same row, and the final list has at
\* most one entry, which is the pick of the enough tier with its label.
C16_CeilingBelowBaselineOneEntry ==
    (Served /\ CeilingWithinBaseline) =>
        /\ \A k \in 1..3 : TierCenter[k] = ReqBudget
        /\ \A i \in 1..Len(Candidates) : \A k \in 1..3 :
              ScoreAt(i, k) = ScoreWithoutExtra(i, k) + HeadroomExtra(i)
        /\ \A k, l \in PickSet : SameRow(picks[k][1], picks[l][1])
        /\ Len(resp.products) <= 1
        /\ \A i \in Listed :
              /\ resp.products[i].tier = "enough"
              /\ picks[1] = Some(resp.products[i])

\* a ceiling below the baseline, several eligible rows, and the row picked
\* by the three tiers owes its extra to 16 GB of memory
C16_Witness ==
    /\ Served
    /\ CeilingWithinBaseline
    /\ Len(Candidates) = 2
    /\ ~SameRow(Candidates[1], Candidates[2])
    /\ PickSet = 1..3
    /\ picks[3][1].spec.memGB = 16
    /\ Len(resp.products) = 1
    /\ resp.products[1].tier = "enough"

(***************************************************************************)
(* The cache of the reader across calls, checked under Spec                *)
(***************************************************************************)
\* the handler called readProductsFromMakeshopCsv in this step
ReaderCalled == HandlerStep /\ (fsRead' \/ rows' # None)

\* _cache holds rows stored less than 60000 ms ago
Fresh == cache.rows # None /\ now - cache.at < CacheTtl

\* C17: a call returns rows without reading the file only if the cache
\* holds them and was stored less than 60000 ms earlier; every other call
\* reads the file; a load that yields at least one data row replaces the
\* cache by the rows of the file and the time of the load; a load that
\* fails or finds no data row leaves the cache as it is; nothing else
\* changes the cache.
C17_CacheServesOnlyFreshLoads ==
    [][ /\ cache' # cache => ReaderCalled /\ fsRead'
        /\ ReaderCalled =>
              /\ fsRead' <=> ~Fresh
              /\ Fresh => rows' = cache.rows /\ cache' = cache
              /\ (~Fresh /\ file.readable /\ Len(file.data) >= 1) =>
                     /\ rows' = Some(FileRows)
                     /\ cache' = [at |-> now, rows |-> Some(FileRows)]
              /\ (~Fresh /\ ~file.readable) => rows' = None /\ cache' = cache
              /\ (~Fresh /\ file.readable /\ Len(file.data) = 0) =>
                     rows' = Some(<< >>) /\ cache' = cache ]_vars

\* a request is served from the cache, without a read, the rows of a file
\* that has been replaced since the load
C17_Witness ==
    /\ Posted
    /\ ~fsRead
    /\ rows # None
    /\ rows = cache.rows
    /\ file.readable
    /\ rows[1] # FileRows
    /\ now > cache.at
    /\ now - cache.at < CacheTtl

(***************************************************************************)
(* Properties of fetchOgImage, checked under SpecImage                     *)
(***************************************************************************)
\* the calls for the same URL that performed a fetch and had settled when
\* call d started
FetchedBefore(d) ==
    { c \in imgCalls[d].after :
        imgCalls[c].fetched /\ imgCalls[c].url = imgCalls[d].url }

\* the one of them that settled last
LastFetchedBefore(d) ==
    CHOOSE c \in FetchedBefore(d) :
        \A e \in FetchedBefore(d) : imgCalls[e].rank <= imgCalls[c].rank

\* no call rejects, and a call whose fetch or body read threw resolves to ""
NeverRejects ==
    \A d \in ImgCallIds :
        /\ imgCalls[d].pc # "rejected"
        /\ imgCalls[d].failed => imgCalls[d].pc = "resolved" /\ imgCalls[d].value = ""

\* C14 as stated: fetchOgImage never rejects and resolves to "" on failure;
\* and after any call that performed a fetch, a further call for the same
\* URL less than 6 hours after that call's start returns the stored value
\* without performing another fetch.
C14_CachedSixHoursFromAnyFetch ==
    /\ NeverRejects
    /\ \A d \in ImgCallIds : \A c \in FetchedBefore(d) :
          imgCalls[d].at - imgCalls[c].at < ImgTtl =>
              /\ ~imgCalls[d].fetched
              /\ imgCalls[d].value = imgCalls[LastFetchedBefore(d)].value

\* C14 amended: fetchOgImage never rejects and resolves to "" on failure;
\* and after calls that performed a fetch, a further call for the same URL
\* less than 6 hours after the start of the one of them that settled last
\* returns the value that call stored, without performing another fetch.
C14_CachedSixHoursFromLastStore ==
    /\ NeverRejects
    /\ \A d \in ImgCallIds :
          (/\ FetchedBefore(d) # {}
           /\ imgCalls[d].at - imgCalls[LastFetchedBefore(d)].at < ImgTtl) =>
              /\ ~imgCalls[d].fetched
              /\ imgCalls[d].value = imgCalls[LastFetchedBefore(d)].value

\* a call went through catch, and a later call within the six hours got
\* the stored "" without a fetch
C14_Witness ==
    \E d \in ImgCallIds : \E c \in FetchedBefore(d) :
        /\ imgCalls[c].failed
        /\ imgCalls[d].at > imgCalls[c].at
        /\ imgCalls[d].at - imgCalls[c].at < ImgTtl
        /\ ~imgCalls[d].fetched
        /\ imgCalls[d].pc = "resolved"
        /\ imgCalls[d].value = ""

====
